---- MODULE Spec2Model ----
(***************************************************************************)
(* lasertag: for each image reference, the newest registry tag that has    *)
(* the same formatting pattern as the reference's own tag.                 *)
(*                                                                         *)
(*   src/src/version.rs  Version, VersionPart, DigitStr (pure functions)   *)
(*   src/src/main.rs     main (semaphore-bounded fan-out, ordered output), *)
(*                       get_latest_similar_tag, list_all_tags             *)
(*                                                                         *)
(* A string is a sequence of one-character strings; Byte gives the ASCII   *)
(* code the Rust code compares by.                                         *)
(***************************************************************************)
EXTENDS Integers, Sequences, FiniteSets, TLC

VARIABLES
    \* ---- main.rs: the run's inputs (Cli) ----
    images,        \* cli.images: sequence of [tag, registry]
    concurrency,   \* cli.concurrency
    differences,   \* cli.differences
    \* ---- main.rs: the semaphore and the spawned tasks ----
    permits,       \* permits available in sema
    pc,            \* per task: "waiting" | "admitted" | "listing" | "done"
    all_tags,      \* per task: list_all_tags' local all_tags
    requests,      \* per task: the cursor of every list_tags request issued
    result,        \* per task: the task's output once done
    \* ---- main.rs: the collecting loop of main ----
    next,          \* index of the (image, task) pair main awaits
    collected,     \* the (image, outcome) pairs the loop has matched so far
    lines,         \* lines written so far, in write order
    has_error,
    exit_code,     \* "running" | "exit 0" | "exit 1"
    \* ---- version.rs exercised on its own ----
    strs,          \* the input strings
    vpc,           \* "start" | "parsed" | "compared" | "matched" | "displayed"
    vers,          \* Version::from of each input
    ords,          \* cmp of each pair
    eqs,           \* == of each pair
    pats,          \* is_same_pattern of each pair
    shown          \* to_string of each version

mainVars == <<images, concurrency, differences, permits, pc, all_tags,
              requests, result, next, collected, lines, has_error, exit_code>>
verVars  == <<strs, vpc, vers, ords, eqs, pats, shown>>
vars     == <<mainVars, verVars>>

----------------------------------------------------------------------------
(* Bounds *)

\* Longest input string of the version.rs specification over pairs.
MaxLen == 3
\* Longest input string of the version.rs specification over triples.
MaxOrdLen == 2
\* Number of images of a run of the scheduler specification.
NumImages == 3
\* Largest --concurrency tried.
MaxConcurrency == 2
\* Longest registry script (responses before the registry goes empty).
MaxPages == 2

----------------------------------------------------------------------------
(* Characters and strings *)

Digits == {"0", "1", "2", "3", "4", "5", "6", "7", "8", "9"}

\* u8::is_ascii_digit
IsAsciiDigit(c) == c \in Digits

\* The byte of a character (ASCII), for the characters the model uses.
Byte(c) ==
    CASE c = "-" -> 45
      [] c = "." -> 46
      [] c = "0" -> 48
      [] c = "1" -> 49
      [] c = "2" -> 50
      [] c = "3" -> 51
      [] c = "4" -> 52
      [] c = "5" -> 53
      [] c = "6" -> 54
      [] c = "7" -> 55
      [] c = "8" -> 56
      [] c = "9" -> 57
      [] c = "a" -> 97
      [] c = "v" -> 118
      [] c = "x" -> 120

\* The value of a decimal digit.
DigitValue(c) == Byte(c) - Byte("0")

\* All strings over alphabet A of length at most n.
StringsUpTo(A, n) == UNION {[1..k -> A] : k \in 0..n}

\* let x = v; F(x): the value v is computed once and F applied to it.
Bind(v, F(_)) == CHOOSE r \in {F(x) : x \in {v}} : TRUE

\* Ordering values (std::cmp::Ordering).
IntCmp(m, n) == IF m < n THEN "Less" ELSE IF m > n THEN "Greater" ELSE "Equal"

Reverse(o) == CASE o = "Less" -> "Greater" [] o = "Greater" -> "Less" [] o = "Equal" -> "Equal"

\* <str as Ord>::cmp: lexicographic by byte, a strict prefix is Less.
RECURSIVE StrCmp(_, _)
StrCmp(a, b) ==
    IF a = <<>> \/ b = <<>>
    THEN IntCmp(Len(a), Len(b))
    ELSE IF Byte(Head(a)) # Byte(Head(b))
         THEN IntCmp(Byte(Head(a)), Byte(Head(b)))
         ELSE StrCmp(Tail(a), Tail(b))

----------------------------------------------------------------------------
(* version.rs: DigitStr *)

\* DigitStr::new: wraps text; panics unless every byte is an ASCII digit.
DigitStrNew(text) ==
    IF \A i \in 1..Len(text) : IsAsciiDigit(text[i]) THEN text ELSE "panic"

\* str::trim_start_matches('0')
RECURSIVE TrimStartZeros(_)
TrimStartZeros(s) ==
    IF s # <<>> /\ Head(s) = "0" THEN TrimStartZeros(Tail(s)) ELSE s

\* A bug DigitStr::cmp could have: comparing without trimming leading zeros.
DigitStrCmpUntrimmed(x, y) ==
    IF Len(x) = Len(y) THEN StrCmp(x, y) ELSE IntCmp(Len(x), Len(y))

\* impl Ord for DigitStr: trim leading zeros, then by length, then by text.
DigitStrCmp(x, y) ==
    LET a == TrimStartZeros(x)
        b == TrimStartZeros(y)
    IN  IF Len(a) = Len(b) THEN StrCmp(a, b) ELSE IntCmp(Len(a), Len(b))

----------------------------------------------------------------------------
(* version.rs: VersionPart and Version *)

Num(text) == [kind |-> "Num", text |-> DigitStrNew(text)]
Str(text) == [kind |-> "Str", text |-> text]

\* Length of the first chunk of slice::chunk_by on a non-empty s: the
\* longest prefix in which every adjacent pair has the same digit-ness.
RECURSIVE FirstChunkLen(_)
FirstChunkLen(s) ==
    IF Len(s) = 1 THEN 1
    ELSE IF IsAsciiDigit(s[1]) = IsAsciiDigit(s[2])
         THEN 1 + FirstChunkLen(Tail(s))
         ELSE 1

\* text.as_bytes().chunk_by(|a, b| a.is_ascii_digit() == b.is_ascii_digit())
RECURSIVE ChunkBy(_)
ChunkBy(s) ==
    IF s = <<>> THEN <<>>
    ELSE LET n == FirstChunkLen(s)
         IN  <<SubSeq(s, 1, n)>> \o ChunkBy(SubSeq(s, n + 1, Len(s)))

\* A bug Version::from could have: a digit part kept by its numeric value,
\* its leading zeros dropped.
VersionFromNormalized(text) ==
    LET chunks == ChunkBy(text)
    IN  [k \in 1..Len(chunks) |->
            IF IsAsciiDigit(chunks[k][1])
            THEN Num(TrimStartZeros(chunks[k])) ELSE Str(chunks[k])]

\* Version::from
VersionFrom(text) ==
    LET chunks == ChunkBy(text)
    IN  [k \in 1..Len(chunks) |->
            IF IsAsciiDigit(chunks[k][1]) THEN Num(chunks[k]) ELSE Str(chunks[k])]

\* impl Display for Version: every part's text, in order.
RECURSIVE VersionToString(_)
VersionToString(v) ==
    IF v = <<>> THEN <<>> ELSE Head(v).text \o VersionToString(Tail(v))

\* A bug is_same_pattern could have: leftover parts of the longer version
\* ignored (zip-style iteration).
RECURSIVE IsSamePatternZip(_, _)
IsSamePatternZip(a, b) ==
    IF a = <<>> \/ b = <<>> THEN TRUE
    ELSE IF Head(a).kind = "Num" /\ Head(b).kind = "Num"
         THEN IsSamePatternZip(Tail(a), Tail(b))
         ELSE IF Head(a).kind = "Str" /\ Head(b).kind = "Str"
              THEN IF Head(a).text # Head(b).text THEN FALSE
                   ELSE IsSamePatternZip(Tail(a), Tail(b))
              ELSE FALSE

\* A bug is_same_pattern could have: a match as soon as self has no part
\* left, whatever is left of other.
RECURSIVE IsSamePatternLeftover(_, _)
IsSamePatternLeftover(a, b) ==
    IF a = <<>> THEN TRUE
    ELSE IF b # <<>> /\ Head(a).kind = "Num" /\ Head(b).kind = "Num"
         THEN IsSamePatternLeftover(Tail(a), Tail(b))
         ELSE IF b # <<>> /\ Head(a).kind = "Str" /\ Head(b).kind = "Str"
              THEN IF Head(a).text # Head(b).text THEN FALSE
                   ELSE IsSamePatternLeftover(Tail(a), Tail(b))
              ELSE FALSE

\* Version::is_same_pattern
RECURSIVE IsSamePattern(_, _)
IsSamePattern(a, b) ==
    IF a = <<>> /\ b = <<>> THEN TRUE
    ELSE IF a # <<>> /\ b # <<>> /\ Head(a).kind = "Num" /\ Head(b).kind = "Num"
         THEN IsSamePattern(Tail(a), Tail(b))
         ELSE IF a # <<>> /\ b # <<>> /\ Head(a).kind = "Str" /\ Head(b).kind = "Str"
              THEN IF Head(a).text # Head(b).text THEN FALSE
                   ELSE IsSamePattern(Tail(a), Tail(b))
              ELSE FALSE

\* #[derive(PartialEq)] on DigitStr(&str): the texts are equal.
DigitStrEq(x, y) == x = y

\* #[derive(PartialEq)] on VersionPart: the same variant and equal payloads.
VersionPartEq(p, q) ==
    /\ p.kind = q.kind
    /\ IF p.kind = "Num" THEN DigitStrEq(p.text, q.text) ELSE p.text = q.text

\* #[derive(PartialEq)] on Version: slices of equal length, equal part by part.
VersionEq(a, b) ==
    /\ Len(a) = Len(b)
    /\ \A k \in 1..Len(a) : VersionPartEq(a[k], b[k])

\* A bug a hand-written VersionPart order could have: parts of different
\* kinds compared by their text.
VersionPartCmpTextual(p, q) ==
    IF p.kind # q.kind
    THEN StrCmp(p.text, q.text)
    ELSE IF p.kind = "Num" THEN DigitStrCmp(p.text, q.text)
         ELSE StrCmp(p.text, q.text)

\* A bug a hand-written VersionPart order could have: parts of different
\* kinds compare Less whichever side the Num part is on.
VersionPartCmpOneSided(p, q) ==
    IF p.kind # q.kind
    THEN "Less"
    ELSE IF p.kind = "Num" THEN DigitStrCmp(p.text, q.text)
         ELSE StrCmp(p.text, q.text)

\* #[derive(Ord)] on VersionPart: variant order Num < Str, then the payload.
VersionPartCmp(p, q) ==
    IF p.kind # q.kind
    THEN IF p.kind = "Num" THEN "Less" ELSE "Greater"
    ELSE IF p.kind = "Num" THEN DigitStrCmp(p.text, q.text)
         ELSE StrCmp(p.text, q.text)

\* #[derive(Ord)] on Version: the slice's lexicographic order.
RECURSIVE VersionCmp(_, _)
VersionCmp(a, b) ==
    IF a = <<>> \/ b = <<>>
    THEN IntCmp(Len(a), Len(b))
    ELSE LET o == VersionPartCmp(Head(a), Head(b))
         IN  IF o # "Equal" THEN o ELSE VersionCmp(Tail(a), Tail(b))

----------------------------------------------------------------------------
(* main.rs: values *)

\* Option<&str>
None == [some |-> FALSE, val |-> <<>>]
Some(s) == [some |-> TRUE, val |-> s]

\* TagResult<String>: Ok(tag), or one of the TagError variants.
Ok(tag) == [kind |-> "Ok", val |-> tag]
Err(e) == [kind |-> e, val |-> <<>>]
ErrorKinds == {"ImageMissingTag", "NoSimilarTag", "Registry"}
\* The output of a task that has not finished.
Pending == [kind |-> "Pending", val |-> <<>>]

\* A response of the registry to one list_tags request.
Page(tags) == [kind |-> "page", tags |-> tags]
Failure == [kind |-> "error", tags |-> <<>>]

\* One image: the reference's tag() and the registry behind it, as the
\* responses it gives to the image's requests, in order; once they are used
\* up it answers with empty pages.
Image(tag, registry) == [tag |-> tag, registry |-> registry]

Tasks == DOMAIN images

\* The registry's response to the k-th request for image i.
Response(i, k) ==
    IF k <= Len(images[i].registry) THEN images[i].registry[k] ELSE Page(<<>>)

----------------------------------------------------------------------------
(* main.rs: get_latest_similar_tag and list_all_tags *)

\* A bug the sort could have: not stable, versions that compare Equal come
\* out in the reverse of the order they had.
SortedIndexTiesReversed(versions, k) ==
    1 + Cardinality({j \in 1..Len(versions) :
            LET o == VersionCmp(versions[j], versions[k])
            IN  o = "Less" \/ (o = "Equal" /\ j > k)})

\* Vec::sort: the versions in cmp order; the sort is stable, so versions
\* that compare Equal keep the order they had. The element at index k goes
\* behind the elements that are Less and the Equal ones before it.
SortedIndex(versions, k) ==
    1 + Cardinality({j \in 1..Len(versions) :
            LET o == VersionCmp(versions[j], versions[k])
            IN  o = "Less" \/ (o = "Equal" /\ j < k)})

Sort(versions) ==
    [p \in 1..Len(versions) |->
        versions[CHOOSE k \in 1..Len(versions) : SortedIndex(versions, k) = p]]

\* slice::last
Last(s) == IF s = <<>> THEN None ELSE Some(s[Len(s)])

\* A bug the selection could have: the filter left out.
SimilarVersionsUnfiltered(tags, start_version) ==
    [k \in 1..Len(tags) |-> VersionFrom(tags[k])]

\* .map(Version::from).filter(is_same_pattern(&start_version)).collect()
RECURSIVE SimilarVersions(_, _)
SimilarVersions(tags, start_version) ==
    IF tags = <<>> THEN <<>>
    ELSE Bind(VersionFrom(Head(tags)), LAMBDA version :
            IF IsSamePattern(version, start_version)
            THEN <<version>> \o SimilarVersions(Tail(tags), start_version)
            ELSE SimilarVersions(Tail(tags), start_version))

\* A bug the selection could have: with no similar version the reference's
\* own tag is returned.
SelectLatestOrStart(start_tag, tags) ==
    Bind(VersionFrom(start_tag), LAMBDA start_version :
    Bind(SimilarVersions(tags, start_version), LAMBDA versions :
    Bind(Last(Sort(versions)), LAMBDA last :
        IF last.some THEN Ok(VersionToString(last.val))
        ELSE Ok(VersionToString(start_version)))))

\* get_latest_similar_tag once list_all_tags has returned Ok(tags).
SelectLatest(start_tag, tags) ==
    Bind(VersionFrom(start_tag), LAMBDA start_version :
    Bind(SimilarVersions(tags, start_version), LAMBDA versions :
    Bind(Last(Sort(versions)), LAMBDA last :
        IF last.some THEN Ok(VersionToString(last.val))
        ELSE Err("NoSimilarTag"))))

\* A bug the cursor could have: the first tag seen instead of the last.
CursorFirst(tags) == IF tags = <<>> THEN None ELSE Some(tags[1])

\* The cursor list_all_tags sends: all_tags.last()
Cursor(tags) == Last(tags)

----------------------------------------------------------------------------
(* main.rs: the tasks *)

\* A bug the admission could have: the task goes on without a permit.
AcquireNoPermit(i) ==
    /\ pc[i] = "waiting"
    /\ pc' = [pc EXCEPT ![i] = "admitted"]
    /\ UNCHANGED <<images, concurrency, differences, permits, all_tags,
                   requests, result, next, collected, lines, has_error,
                   exit_code, verVars>>

\* A bug the semaphore could have: a permit handed out when none is left.
AcquireAtZero(i) ==
    /\ pc[i] = "waiting"
    /\ permits >= 0
    /\ permits' = permits - 1
    /\ pc' = [pc EXCEPT ![i] = "admitted"]
    /\ UNCHANGED <<images, concurrency, differences, all_tags, requests,
                   result, next, collected, lines, has_error, exit_code,
                   verVars>>

\* let _permit = sema.acquire().await.unwrap();
Acquire(i) ==
    /\ pc[i] = "waiting"
    /\ permits > 0
    /\ permits' = permits - 1
    /\ pc' = [pc EXCEPT ![i] = "admitted"]
    /\ UNCHANGED <<images, concurrency, differences, all_tags, requests,
                   result, next, collected, lines, has_error, exit_code,
                   verVars>>

\* A bug the task could have: the permit kept when the selection fails.
FinishKeepOnError(i, output) ==
    /\ result' = [result EXCEPT ![i] = output]
    /\ pc' = [pc EXCEPT ![i] = "done"]
    /\ permits' = IF output.kind = "Ok" THEN permits + 1 ELSE permits

\* The task's output is stored and its _permit dropped.
Finish(i, output) ==
    /\ result' = [result EXCEPT ![i] = output]
    /\ pc' = [pc EXCEPT ![i] = "done"]
    /\ permits' = permits + 1

\* A bug get_latest_similar_tag could have: the listing requested before
\* the reference's tag is looked at.
StartListFirst(i) ==
    /\ pc[i] = "admitted"
    /\ requests' = [requests EXCEPT ![i] = <<Cursor(all_tags[i])>>]
    /\ pc' = [pc EXCEPT ![i] = "listing"]
    /\ UNCHANGED <<all_tags, result, permits>>
    /\ UNCHANGED <<images, concurrency, differences, next, collected, lines,
                   has_error, exit_code, verVars>>

\* get_latest_similar_tag up to the first list_tags request: a reference
\* without a tag ends the task with ImageMissingTag.
Start(i) ==
    /\ pc[i] = "admitted"
    /\ IF ~images[i].tag.some
       THEN /\ Finish(i, Err("ImageMissingTag"))
            /\ UNCHANGED <<all_tags, requests>>
       ELSE /\ requests' = [requests EXCEPT ![i] = <<Cursor(all_tags[i])>>]
            /\ pc' = [pc EXCEPT ![i] = "listing"]
            /\ UNCHANGED <<all_tags, result, permits>>
    /\ UNCHANGED <<images, concurrency, differences, next, collected, lines,
                   has_error, exit_code, verVars>>

\* A bug list_all_tags could have: on a failed request the tags of the
\* earlier pages are returned as the listing.
RespondKeepPartial(i) ==
    /\ pc[i] = "listing"
    /\ LET response == Response(i, Len(requests[i]))
       IN  IF response.kind = "error" \/ response.tags = <<>>
           THEN /\ Finish(i, SelectLatest(images[i].tag.val, all_tags[i]))
                /\ UNCHANGED <<all_tags, requests>>
           ELSE LET extended == all_tags[i] \o response.tags
                IN  /\ all_tags' = [all_tags EXCEPT ![i] = extended]
                    /\ requests' = [requests EXCEPT
                                      ![i] = Append(@, Cursor(extended))]
                    /\ UNCHANGED <<pc, result, permits>>
    /\ UNCHANGED <<images, concurrency, differences, next, collected, lines,
                   has_error, exit_code, verVars>>

\* Another rule the loop could follow: the listing ends at a page that
\* brings no tag that is not collected yet.
RespondStopWithoutNew(i) ==
    /\ pc[i] = "listing"
    /\ LET response == Response(i, Len(requests[i]))
       IN  IF response.kind = "error"
           THEN /\ Finish(i, Err("Registry"))
                /\ UNCHANGED <<all_tags, requests>>
           ELSE IF \A k \in 1..Len(response.tags) :
                      \E j \in 1..Len(all_tags[i]) : all_tags[i][j] = response.tags[k]
           THEN /\ Finish(i, SelectLatest(images[i].tag.val, all_tags[i]))
                /\ UNCHANGED <<all_tags, requests>>
           ELSE LET extended == all_tags[i] \o response.tags
                IN  /\ all_tags' = [all_tags EXCEPT ![i] = extended]
                    /\ requests' = [requests EXCEPT
                                      ![i] = Append(@, Cursor(extended))]
                    /\ UNCHANGED <<pc, result, permits>>
    /\ UNCHANGED <<images, concurrency, differences, next, collected, lines,
                   has_error, exit_code, verVars>>

\* The response to the request in flight arrives: an empty page ends the
\* listing and the selection is made, a page is appended and the next
\* request goes out, an error ends the task.
Respond(i) ==
    /\ pc[i] = "listing"
    /\ LET response == Response(i, Len(requests[i]))
       IN  IF response.kind = "error"
           THEN /\ Finish(i, Err("Registry"))
                /\ UNCHANGED <<all_tags, requests>>
           ELSE IF response.tags = <<>>
           THEN /\ Finish(i, SelectLatest(images[i].tag.val, all_tags[i]))
                /\ UNCHANGED <<all_tags, requests>>
           ELSE LET extended == all_tags[i] \o response.tags
                IN  /\ all_tags' = [all_tags EXCEPT ![i] = extended]
                    /\ requests' = [requests EXCEPT
                                      ![i] = Append(@, Cursor(extended))]
                    /\ UNCHANGED <<pc, result, permits>>
    /\ UNCHANGED <<images, concurrency, differences, next, collected, lines,
                   has_error, exit_code, verVars>>

----------------------------------------------------------------------------
(* main.rs: main's collecting loop *)

Line(stream, i, outcome) == [stream |-> stream, image |-> i, outcome |-> outcome]

\* Whether main writes a line for the outcome of image i.
Printed(i, outcome) ==
    \/ outcome.kind # "Ok"
    \/ ~differences
    \/ images[i].tag # Some(outcome.val)

\* A bug the loop could have: outcomes taken as the tasks complete.
CollectCompleted ==
    /\ exit_code = "running"
    /\ next \in Tasks
    /\ \E i \in Tasks :
         /\ pc[i] = "done"
         /\ \A k \in DOMAIN collected : collected[k].image # i
         /\ lines' = IF Printed(i, result[i])
                      THEN Append(lines, Line(IF result[i].kind = "Ok"
                                              THEN "stdout" ELSE "stderr",
                                              i, result[i]))
                      ELSE lines
         /\ has_error' = (has_error \/ result[i].kind # "Ok")
         /\ collected' = Append(collected, [image |-> i, outcome |-> result[i]])
    /\ next' = next + 1
    /\ UNCHANGED <<images, concurrency, differences, permits, pc, all_tags,
                   requests, result, exit_code, verVars>>

\* A bug the loop could have: the task's output matched without awaiting
\* the task.
CollectWithoutAwait ==
    /\ exit_code = "running"
    /\ next \in Tasks
    /\ LET outcome == result[next]
       IN  IF outcome.kind = "Ok"
           THEN /\ lines' = IF Printed(next, outcome)
                            THEN Append(lines, Line("stdout", next, outcome))
                            ELSE lines
                /\ UNCHANGED has_error
           ELSE /\ lines' = Append(lines, Line("stderr", next, outcome))
                /\ has_error' = TRUE
    /\ collected' = Append(collected, [image |-> next, outcome |-> result[next]])
    /\ next' = next + 1
    /\ UNCHANGED <<images, concurrency, differences, permits, pc, all_tags,
                   requests, result, exit_code, verVars>>

\* One iteration of the for loop: task.await, then the match.
Collect ==
    /\ exit_code = "running"
    /\ next \in Tasks
    /\ pc[next] = "done"
    /\ LET outcome == result[next]
       IN  IF outcome.kind = "Ok"
           THEN /\ lines' = IF Printed(next, outcome)
                            THEN Append(lines, Line("stdout", next, outcome))
                            ELSE lines
                /\ UNCHANGED has_error
           ELSE /\ lines' = Append(lines, Line("stderr", next, outcome))
                /\ has_error' = TRUE
    /\ collected' = Append(collected, [image |-> next, outcome |-> result[next]])
    /\ next' = next + 1
    /\ UNCHANGED <<images, concurrency, differences, permits, pc, all_tags,
                   requests, result, exit_code, verVars>>

\* After the loop: process::exit(1) if has_error, else main returns.
Exit ==
    /\ exit_code = "running"
    /\ next = Len(images) + 1
    /\ exit_code' = IF has_error THEN "exit 1" ELSE "exit 0"
    /\ UNCHANGED <<images, concurrency, differences, permits, pc, all_tags,
                   requests, result, next, collected, lines, has_error,
                   verVars>>

----------------------------------------------------------------------------
(* main.rs: runs *)

\* Tags of the registries.
TagV1 == <<"v", "1">>
TagV01 == <<"v", "0", "1">>
TagV2 == <<"v", "2">>
TagV10 == <<"v", "1", "0">>
TagX == <<"x">>

\* The images of the scheduler specification: a success over two pages, a
\* reference without a tag, a reference no listed tag is similar to, a
\* registry failure on the second request, and a success whose tag is the
\* reference's own.
ExampleImages == {
    Image(Some(TagV1), <<Page(<<TagV1, TagV10>>), Page(<<TagV2, TagX>>)>>),
    Image(None, <<Page(<<TagV1>>)>>),
    Image(Some(TagX), <<Page(<<TagV1, TagV2>>)>>),
    Image(Some(TagV1), <<Page(<<TagV2>>), Failure>>),
    Image(Some(TagV10), <<Page(<<TagV1, TagV10>>)>>) }

\* The images of the selection specification: every reference tag against
\* every registry script of at most MaxPages responses.
TagPool == {TagV1, TagV01, TagV10, TagX}
RefTags == {None, Some(TagV1), Some(TagX)}
Responses ==
    {Failure} \cup {Page(<<>>)} \cup {Page(<<t>>) : t \in TagPool}
              \cup {Page(<<t, u>>) : t, u \in TagPool}
Scripts == UNION {[1..k -> Responses] : k \in 0..MaxPages}
AllImages == {Image(tag, registry) : tag \in RefTags, registry \in Scripts}

\* version.rs's variables while the scheduler runs.
VerIdle ==
    /\ strs = <<>>
    /\ vpc = "idle"
    /\ vers = <<>>
    /\ ords = <<>>
    /\ eqs = <<>>
    /\ pats = <<>>
    /\ shown = <<>>

\* The state once main has spawned one task per image.
Spawned ==
    /\ permits = concurrency
    /\ pc = [i \in Tasks |-> "waiting"]
    /\ all_tags = [i \in Tasks |-> <<>>]
    /\ requests = [i \in Tasks |-> <<>>]
    /\ result = [i \in Tasks |-> Pending]
    /\ next = 1
    /\ collected = <<>>
    /\ lines = <<>>
    /\ has_error = FALSE
    /\ exit_code = "running"

\* The images of the fair specification: a success over two pages, a
\* reference without a tag and a registry failure.
FairImages == {
    Image(Some(TagV1), <<Page(<<TagV2>>), Page(<<TagV1>>)>>),
    Image(None, <<>>),
    Image(Some(TagV1), <<Failure>>) }

\* A run of the scheduler specification names NumImages distinct example
\* images, in any order.
Init ==
    /\ images \in [1..NumImages -> ExampleImages]
    /\ \A i, j \in 1..NumImages : images[i] = images[j] => i = j
    /\ concurrency \in 0..MaxConcurrency
    /\ differences \in BOOLEAN
    /\ Spawned
    /\ VerIdle

InitSelect ==
    /\ images \in [1..1 -> AllImages]
    /\ concurrency = 1
    /\ differences \in BOOLEAN
    /\ Spawned
    /\ VerIdle

Next ==
    \/ \E i \in Tasks : Acquire(i)
    \/ \E i \in Tasks : Start(i)
    \/ \E i \in Tasks : Respond(i)
    \/ Collect
    \/ Exit

Spec == Init /\ [][Next]_vars
SpecSelect == InitSelect /\ [][Next]_vars
InitFair ==
    /\ images \in [1..NumImages -> FairImages]
    /\ concurrency \in 0..MaxConcurrency
    /\ differences \in BOOLEAN
    /\ Spawned
    /\ VerIdle

\* The tokio runtime runs every task that can take a step, and main.
FairSpec == InitFair /\ [][Next]_vars /\ WF_vars(Next)

\* The images of the paging specification: the reference v1 against every
\* script of at most MaxPages responses that fail, are empty, list a tag or
\* list tags again that an earlier response has listed.
PagingResponses == {Failure, Page(<<>>), Page(<<TagV1>>), Page(<<TagV1, TagV10>>)}
PagingScripts == UNION {[1..k -> PagingResponses] : k \in 0..MaxPages}

InitPaging ==
    /\ images \in [1..1 -> {Image(Some(TagV1), registry) : registry \in PagingScripts}]
    /\ concurrency = 1
    /\ differences \in BOOLEAN
    /\ Spawned
    /\ VerIdle

\* One task and main, each run whenever it can take a step.
SpecPaging == InitPaging /\ [][Next]_vars /\ WF_vars(Next)

----------------------------------------------------------------------------
(* version.rs exercised on its own: the inputs are drawn in Init, the      *)
(* actions apply Version::from, cmp, is_same_pattern and to_string.        *)

\* The alphabet of the input strings: two digits, one byte below the digits
\* and one above them.
Alphabet == {"0", "1", ".", "v"}
\* The alphabet of the triples.
OrdAlphabet == {"0", "1", "v"}

Idx == DOMAIN strs

ParseAll ==
    /\ vpc = "start"
    /\ vers' = [k \in Idx |-> VersionFrom(strs[k])]
    /\ vpc' = "parsed"
    /\ UNCHANGED <<strs, ords, eqs, pats, shown, mainVars>>

CompareAll ==
    /\ vpc = "parsed"
    /\ ords' = [i \in Idx |-> [j \in Idx |-> VersionCmp(vers[i], vers[j])]]
    /\ eqs' = [i \in Idx |-> [j \in Idx |-> VersionEq(vers[i], vers[j])]]
    /\ vpc' = "compared"
    /\ UNCHANGED <<strs, vers, pats, shown, mainVars>>

MatchAll ==
    /\ vpc = "compared"
    /\ pats' = [i \in Idx |-> [j \in Idx |-> IsSamePattern(vers[i], vers[j])]]
    /\ vpc' = "matched"
    /\ UNCHANGED <<strs, vers, ords, eqs, shown, mainVars>>

DisplayAll ==
    /\ vpc = "matched"
    /\ shown' = [k \in Idx |-> VersionToString(vers[k])]
    /\ vpc' = "displayed"
    /\ UNCHANGED <<strs, vers, ords, eqs, pats, mainVars>>

\* The scheduler's variables while version.rs is exercised on its own: a run
\* of no images that has ended.
MainIdle ==
    /\ images = <<>>
    /\ concurrency = 0
    /\ differences = FALSE
    /\ permits = 0
    /\ pc = <<>>
    /\ all_tags = <<>>
    /\ requests = <<>>
    /\ result = <<>>
    /\ next = 1
    /\ collected = <<>>
    /\ lines = <<>>
    /\ has_error = FALSE
    /\ exit_code = "exit 0"

VerStart ==
    /\ vpc = "start"
    /\ vers = <<>>
    /\ ords = <<>>
    /\ eqs = <<>>
    /\ pats = <<>>
    /\ shown = <<>>

\* Pairs of strings over Alphabet.
InitVersion ==
    /\ strs \in [1..2 -> StringsUpTo(Alphabet, MaxLen)]
    /\ VerStart
    /\ MainIdle

\* Triples of strings over OrdAlphabet.
InitOrder ==
    /\ strs \in [1..3 -> StringsUpTo(OrdAlphabet, MaxOrdLen)]
    /\ VerStart
    /\ MainIdle

NextVersion == ParseAll \/ CompareAll \/ MatchAll \/ DisplayAll

SpecVersion == InitVersion /\ [][NextVersion]_vars
SpecOrder == InitOrder /\ [][NextVersion]_vars

----------------------------------------------------------------------------
(* Properties of main.rs *)

\* The registry of an image seen from outside the task: the number of
\* non-empty pages it serves before the first empty page or failure.
RECURSIVE LeadingPages(_)
LeadingPages(registry) ==
    IF registry # <<>> /\ Head(registry).kind = "page" /\ Head(registry).tags # <<>>
    THEN 1 + LeadingPages(Tail(registry))
    ELSE 0

\* The tags of the first n pages, in order.
RECURSIVE ConcatPages(_, _)
ConcatPages(registry, n) ==
    IF n = 0 THEN <<>> ELSE ConcatPages(registry, n - 1) \o registry[n].tags

\* The listing meets a failure before an empty page.
ListingFails(registry) ==
    LET m == LeadingPages(registry)
    IN  m < Len(registry) /\ registry[m + 1].kind = "error"

FullListing(registry) == ConcatPages(registry, LeadingPages(registry))

Held == {i \in Tasks : pc[i] \in {"admitted", "listing"}}
Outcomes == {"Ok"} \cup ErrorKinds

\* C1: a successful selection returns a string of the listed tags, of the
\* reference's pattern, and no listed tag of that pattern compares Greater.
C1_SelectsMaximumOfPattern ==
    \A i \in Tasks :
        (pc[i] = "done" /\ result[i].kind = "Ok") =>
            LET t == result[i].val
                start == VersionFrom(images[i].tag.val)
                L == FullListing(images[i].registry)
            IN  /\ all_tags[i] = L
                /\ \E k \in 1..Len(L) : L[k] = t
                /\ IsSamePattern(VersionFrom(t), start)
                /\ \A k \in 1..Len(L) :
                     IsSamePattern(VersionFrom(L[k]), start)
                        => VersionCmp(VersionFrom(L[k]), VersionFrom(t)) # "Greater"

\* A selection succeeded although a listed tag of another pattern compares
\* Greater than the tag returned.
C1_Witness ==
    \E i \in Tasks :
        /\ pc[i] = "done"
        /\ result[i].kind = "Ok"
        /\ \E k \in 1..Len(all_tags[i]) :
             /\ ~IsSamePattern(VersionFrom(all_tags[i][k]), VersionFrom(images[i].tag.val))
             /\ VersionCmp(VersionFrom(all_tags[i][k]), VersionFrom(result[i].val)) = "Greater"
        /\ \E k \in 1..Len(all_tags[i]) :
             VersionCmp(VersionFrom(all_tags[i][k]), VersionFrom(result[i].val)) = "Less"

C2_SlotInvariant ==
    /\ permits >= 0
    /\ Cardinality(Held) <= concurrency
    /\ Cardinality(Held) + permits = concurrency
    /\ \A i \in Tasks : pc[i] = "waiting" => requests[i] = <<>>

C2_RequestWhileHeld ==
    \A i \in Tasks : requests'[i] # requests[i] => i \in Held

\* C2: at most `concurrency` tasks are admitted and unfinished, slots held
\* plus slots available is `concurrency`, and a task issues a request only
\* while it holds a slot.
C2_AdmissionBound == []C2_SlotInvariant /\ [][C2_RequestWhileHeld]_vars

\* Every slot is held, a task waits, and a failed task has given its slot back.
C2_Witness ==
    /\ concurrency >= 1
    /\ Cardinality(Held) = concurrency
    /\ \E i \in Tasks : pc[i] = "waiting"
    /\ \E i \in Tasks : pc[i] = "done" /\ result[i].kind \in ErrorKinds
    /\ \E i \in Tasks : pc[i] = "listing" /\ Len(requests[i]) >= 2

\* C3: main collects the outcomes in input order, the k-th collected being
\* task k's own, one per image once the run has ended; the lines follow the
\* same order, one for each collected outcome that is printed.
C3_OutcomesInInputOrder ==
    /\ Len(collected) = next - 1
    /\ \A k \in 1..Len(collected) :
         /\ collected[k].image = k
         /\ pc[k] = "done"
         /\ collected[k].outcome = result[k]
         /\ result[k].kind \in Outcomes
         /\ Printed(k, result[k]) <=> \E l \in 1..Len(lines) : lines[l].image = k
    /\ exit_code # "running" => Len(collected) = Len(images)
    /\ \A l \in 1..Len(lines) :
         /\ lines[l].image \in 1..Len(collected)
         /\ lines[l].outcome = result[lines[l].image]
         /\ lines[l].stream = IF lines[l].outcome.kind = "Ok" THEN "stdout" ELSE "stderr"
         /\ \A m \in 1..Len(lines) : l < m => lines[l].image < lines[m].image

\* An outcome has been collected while a later task has finished before an
\* earlier one.
C3_Witness ==
    /\ Len(collected) >= 1
    /\ \E i, j \in Tasks : i < j /\ pc[i] # "done" /\ pc[j] = "done"

\* C4: the first request carries no cursor, every later one the last tag
\* accumulated, the loop returns at the first empty page, and what it
\* returns is the concatenation of the non-empty pages in order.
C4_PaginationDrains ==
    \A i \in Tasks :
        LET registry == images[i].registry
            n == Len(requests[i])
            m == LeadingPages(registry)
        IN  /\ n <= m + 1
            /\ \A k \in 1..n :
                 requests[i][k] =
                    IF k = 1 THEN None
                    ELSE Some(registry[k - 1].tags[Len(registry[k - 1].tags)])
            /\ pc[i] = "listing" => all_tags[i] = ConcatPages(registry, n - 1)
            /\ (pc[i] = "done" /\ images[i].tag.some) =>
                 /\ n = m + 1
                 /\ all_tags[i] = ConcatPages(registry, m)
                 /\ ~ListingFails(registry) =>
                      result[i] = SelectLatest(images[i].tag.val, ConcatPages(registry, m))

\* Two pages of two tags and then an empty page have been drained.
C4_Witness ==
    \E i \in Tasks :
        /\ pc[i] = "done"
        /\ result[i].kind = "Ok"
        /\ Len(requests[i]) = 3
        /\ Len(all_tags[i]) = 4

\* The outcome of a selection as a function of the image alone.
Outcome(image) ==
    IF ~image.tag.some THEN Err("ImageMissingTag")
    ELSE IF ListingFails(image.registry) THEN Err("Registry")
    ELSE SelectLatest(image.tag.val, FullListing(image.registry))

\* C9: a task's outcome is a function of its own image; whatever has
\* failed, a waiting task can be admitted or waits for a slot that an
\* unfinished task holds, and main ends only with every outcome collected.
C9_FailuresAreIsolated ==
    /\ \A i \in Tasks :
         /\ pc[i] = "done" => result[i] = Outcome(images[i])
         /\ pc[i] # "done" => result[i] = Pending
         /\ (pc[i] = "waiting" /\ concurrency >= 1) =>
               (ENABLED Acquire(i)) \/ Held # {}
    /\ exit_code # "running" =>
         \A i \in Tasks : pc[i] = "done" /\ collected[i].outcome = Outcome(images[i])

\* One slot, and a success has been collected after a failure of each kind.
C9_Witness ==
    /\ concurrency = 1
    /\ exit_code = "exit 1"
    /\ \E i \in Tasks : collected[i].outcome.kind = "Ok"
    /\ \E i \in Tasks : collected[i].outcome.kind = "Registry"
    /\ \E i \in Tasks : collected[i].outcome.kind \in {"ImageMissingTag", "NoSimilarTag"}

\* Every task has been admitted and has finished with success or error,
\* every outcome is collected and main has ended.
RunComplete ==
    /\ \A i \in Tasks : pc[i] = "done" /\ result[i].kind \in Outcomes
    /\ Len(collected) = Len(images)
    /\ exit_code # "running"

\* C10: with at least one slot, under weak fairness, eventually and from
\* then on every task has been admitted and has finished with success or
\* error, all outcomes are collected and the run has ended.
C10_RunCompletes == (concurrency >= 1) => <>[]RunComplete

\* A run of one slot has ended with every task finished.
C10_Witness ==
    /\ concurrency = 1
    /\ exit_code # "running"
    /\ Len(collected) = NumImages
    /\ \A i \in Tasks : pc[i] = "done"
    /\ \E i \in Tasks : Len(requests[i]) = 3
    /\ \E i \in Tasks : result[i].kind = "Registry"

----------------------------------------------------------------------------
(* Properties of version.rs *)

Parsed == vpc \in {"parsed", "compared", "matched", "displayed"}
Compared == vpc \in {"compared", "matched", "displayed"}
Matched == vpc \in {"matched", "displayed"}
Displayed == vpc = "displayed"

AllDigits(s) == \A i \in 1..Len(s) : IsAsciiDigit(s[i])
NoDigits(s) == \A i \in 1..Len(s) : ~IsAsciiDigit(s[i])

\* C5: Version::from(s) partitions s into maximal runs by ASCII-digit-ness:
\* every part is non-empty, a Num part holds only digits and a Str part
\* none, adjacent parts differ in kind, the empty string has no parts, and
\* to_string gives s back exactly.
C5_FromPartitionsRoundTrip ==
    /\ Parsed =>
         \A k \in Idx :
            /\ \A p \in 1..Len(vers[k]) :
                 /\ vers[k][p].text # "panic"
                 /\ Len(vers[k][p].text) >= 1
                 /\ vers[k][p].kind = "Num" => AllDigits(vers[k][p].text)
                 /\ vers[k][p].kind = "Str" => NoDigits(vers[k][p].text)
            /\ \A p \in 1..(Len(vers[k]) - 1) :
                 vers[k][p].kind # vers[k][p + 1].kind
            /\ strs[k] = <<>> => Len(vers[k]) = 0
    /\ Displayed => \A k \in Idx : shown[k] = strs[k]

\* A string with a leading zero in its digit run has been parsed and shown.
C5_Witness ==
    /\ Displayed
    /\ strs[1] = <<"v", "0", "1">>
    /\ Len(vers[1]) = 2
    /\ shown[1] = <<"v", "0", "1">>

\* s with every maximal digit run replaced by one placeholder.
RECURSIVE Placeholder(_, _)
Placeholder(s, inRun) ==
    IF s = <<>> THEN <<>>
    ELSE IF IsAsciiDigit(Head(s))
         THEN (IF inRun THEN <<>> ELSE <<"#">>) \o Placeholder(Tail(s), TRUE)
         ELSE <<Head(s)>> \o Placeholder(Tail(s), FALSE)

SameShape(a, b) ==
    /\ Len(a) = Len(b)
    /\ \A p \in 1..Len(a) :
         /\ a[p].kind = b[p].kind
         /\ a[p].kind = "Str" => a[p].text = b[p].text

\* C6: is_same_pattern is true exactly when both versions have as many
\* parts, of the same kinds, with identical Str parts; equivalently when the
\* two strings are equal once every digit run is one placeholder.
C6_SamePatternIsShape ==
    Matched =>
        \A i, j \in Idx :
            /\ pats[i][j] = SameShape(vers[i], vers[j])
            /\ pats[i][j] = (Placeholder(strs[i], FALSE) = Placeholder(strs[j], FALSE))

\* Two strings of different lengths and digit values match.
C6_Witness ==
    /\ Matched
    /\ strs[1] = <<"v", "0", "1">>
    /\ strs[2] = <<"v", "1">>
    /\ pats[1][2]

\* C7: cmp is a total order on all versions: reflexive, cmp(a,b) the
\* reverse of cmp(b,a), and transitive.
C7_CmpTotalOrder ==
    Compared =>
        \A i, j, k \in Idx :
            /\ ords[i][i] = "Equal"
            /\ ords[i][j] = Reverse(ords[j][i])
            /\ (ords[i][j] # "Greater" /\ ords[j][k] # "Greater")
                  => ords[i][k] # "Greater"

\* A strictly increasing chain across different patterns.
C7_Witness ==
    /\ Matched
    /\ ords[1][2] = "Less"
    /\ ords[2][3] = "Less"
    /\ ~pats[1][2]
    /\ ~pats[2][3]

\* The unsigned integer a digit run denotes.
RECURSIVE Value(_)
Value(s) ==
    IF s = <<>> THEN 0 ELSE 10 * Value(SubSeq(s, 1, Len(s) - 1)) + DigitValue(s[Len(s)])

\* C8: two digit runs compare as the unsigned integers they denote,
\* whatever their leading zeros.
C8_DigitStrCmpIsNumeric ==
    Compared =>
        \A i, j \in Idx :
            (strs[i] # <<>> /\ strs[j] # <<>> /\ AllDigits(strs[i]) /\ AllDigits(strs[j]))
               => /\ vers[i] = <<Num(strs[i])>>
                  /\ ords[i][j] = IntCmp(Value(strs[i]), Value(strs[j]))

\* A run of zeros only against a shorter one.
C8_Witness ==
    /\ Compared
    /\ strs[1] = <<"0", "0", "0">>
    /\ strs[2] = <<"0">>
    /\ ords[1][2] = "Equal"

----------------------------------------------------------------------------
(* Properties of main.rs: errors *)

\* C11: when a request of an image's listing fails, the task ends with the
\* Registry error: the failed request is its last one, the tags of the
\* earlier pages are not selected from, and the outcome is never Ok; and
\* only a failed request gives the Registry error.
C11_RegistryErrorEndsListing ==
    \A i \in Tasks :
        LET registry == images[i].registry
            m == LeadingPages(registry)
        IN  /\ (images[i].tag.some /\ ListingFails(registry)) =>
                 /\ Len(requests[i]) <= m + 1
                 /\ result[i].kind \in {"Pending", "Registry"}
                 /\ pc[i] = "done" =>
                      /\ result[i] = Err("Registry")
                      /\ Len(requests[i]) = m + 1
                      /\ registry[Len(requests[i])].kind = "error"
            /\ result[i].kind = "Registry" =>
                 /\ images[i].tag.some
                 /\ ListingFails(registry)
                 /\ pc[i] = "done"

\* A request has failed after a page that held a tag of the reference's
\* pattern.
C11_Witness ==
    \E i \in Tasks :
        /\ pc[i] = "done"
        /\ result[i] = Err("Registry")
        /\ Len(requests[i]) = 2
        /\ \E k \in 1..Len(all_tags[i]) :
             SameShape(VersionFrom(all_tags[i][k]), VersionFrom(images[i].tag.val))

\* C12: for a reference with a tag and a listing that completes, the
\* outcome is NoSimilarTag exactly when no listed tag has the reference's
\* pattern, an empty listing included, and Ok otherwise.
C12_NoSimilarTagIffNoneMatches ==
    \A i \in Tasks :
        (pc[i] = "done" /\ images[i].tag.some /\ ~ListingFails(images[i].registry)) =>
            LET L == FullListing(images[i].registry)
                start == VersionFrom(images[i].tag.val)
                none == \A k \in 1..Len(L) : ~SameShape(VersionFrom(L[k]), start)
            IN  /\ result[i].kind \in {"Ok", "NoSimilarTag"}
                /\ (result[i].kind = "NoSimilarTag") <=> none
                /\ (result[i].kind = "Ok") <=> ~none
                /\ L = <<>> => result[i] = Err("NoSimilarTag")

\* The registry listed two pages of tags and none has the reference's
\* pattern.
C12_Witness ==
    \E i \in Tasks :
        /\ pc[i] = "done"
        /\ result[i] = Err("NoSimilarTag")
        /\ Len(requests[i]) = 3
        /\ Len(all_tags[i]) >= 2

\* C13: a reference without a tag ends with ImageMissingTag and no request
\* is ever issued for it, whatever its registry would answer; and only such
\* a reference gives ImageMissingTag.
C13_MissingTagBeforeAnyRequest ==
    \A i \in Tasks :
        /\ ~images[i].tag.some =>
             /\ requests[i] = <<>>
             /\ all_tags[i] = <<>>
             /\ pc[i] # "listing"
             /\ result[i].kind \in {"Pending", "ImageMissingTag"}
             /\ pc[i] = "done" => result[i] = Err("ImageMissingTag")
        /\ result[i].kind = "ImageMissingTag" => ~images[i].tag.some

\* A reference without a tag has failed although its registry would have
\* served two pages of tags.
C13_Witness ==
    \E i \in Tasks :
        /\ pc[i] = "done"
        /\ ~images[i].tag.some
        /\ result[i] = Err("ImageMissingTag")
        /\ LeadingPages(images[i].registry) = 2

----------------------------------------------------------------------------
(* Properties of main.rs: the end of the listing *)

\* The tags of response k of image i that no earlier response has listed.
NewTags(i, k) ==
    LET before == ConcatPages(images[i].registry, k - 1)
        tags == Response(i, k).tags
    IN  {p \in 1..Len(tags) : \A j \in 1..Len(before) : before[j] # tags[p]}

\* C14 as claimed: a request is followed by another only if its response
\* brought a tag that was not collected yet.
C14_StopsAtNoNewTags ==
    \A i \in Tasks :
        \A k \in 1..(Len(requests[i]) - 1) : NewTags(i, k) # {}

C14_EmptyPageEndsListing ==
    \A i \in Tasks :
        LET n == Len(requests[i])
        IN  /\ \A k \in 1..(n - 1) :
                 Response(i, k).kind = "page" /\ Response(i, k).tags # <<>>
            /\ pc[i] = "listing" => all_tags[i] = ConcatPages(images[i].registry, n - 1)
            /\ (pc[i] = "done" /\ result[i].kind \in {"Ok", "NoSimilarTag"}) =>
                 /\ Response(i, n) = Page(<<>>)
                 /\ all_tags[i] = ConcatPages(images[i].registry, n - 1)

C14_ListingEnds == \A i \in Tasks : pc[i] = "done"

\* C14 amended: the listing stops at the first empty page and only there;
\* a page that is not empty, also one of tags all collected already, is
\* appended and followed by a request; what is returned is every page
\* before the empty one, in order; and the listing ends for every registry
\* that comes to an empty page or fails.
C14_StopsAtEmptyPage == []C14_EmptyPageEndsListing /\ <>[]C14_ListingEnds

\* A second page of the one tag the first page listed has been appended and
\* the listing went on to the empty third page.
C14_Witness ==
    \E i \in Tasks :
        /\ pc[i] = "done"
        /\ result[i] = Ok(TagV1)
        /\ images[i].registry = <<Page(<<TagV1>>), Page(<<TagV1>>)>>
        /\ Len(requests[i]) = 3
        /\ all_tags[i] = <<TagV1, TagV1>>

----------------------------------------------------------------------------
(* Properties of version.rs: order, pattern and equality *)

Min(m, n) == IF m <= n THEN m ELSE n

\* Two parts differ: in kind, in text (Str) or in value (Num).
PartsDiffer(p, q) ==
    \/ p.kind # q.kind
    \/ p.kind = "Str" /\ p.text # q.text
    \/ p.kind = "Num" /\ Value(p.text) # Value(q.text)

\* The positions both versions have at which their parts differ.
Differing(a, b) == {p \in 1..Min(Len(a), Len(b)) : PartsDiffer(a[p], b[p])}

First(S) == CHOOSE p \in S : \A q \in S : p <= q

\* Byte order of two texts: the bytes at the first index where they differ,
\* and a strict prefix before the longer text.
ByteOrder(s, t) ==
    LET D == {k \in 1..Min(Len(s), Len(t)) : s[k] # t[k]}
    IN  IF D # {} THEN IntCmp(Byte(s[First(D)]), Byte(t[First(D)]))
        ELSE IntCmp(Len(s), Len(t))

\* C15: at the first position where two versions differ a Num part is Less
\* than a Str part whatever their texts and two Str parts compare by byte
\* order; without such a position the version with fewer parts is Less, the
\* empty version Less than every other.
C15_NumBeforeStrAndPrefixLess ==
    Compared =>
        \A i, j \in Idx :
            LET a == vers[i]
                b == vers[j]
                D == Differing(a, b)
            IN  /\ D # {} =>
                     LET p == First(D)
                     IN  /\ (a[p].kind = "Num" /\ b[p].kind = "Str") => ords[i][j] = "Less"
                         /\ (a[p].kind = "Str" /\ b[p].kind = "Num") => ords[i][j] = "Greater"
                         /\ (a[p].kind = "Str" /\ b[p].kind = "Str") =>
                               ords[i][j] = ByteOrder(a[p].text, b[p].text)
                /\ (D = {} /\ Len(a) < Len(b)) => ords[i][j] = "Less"
                /\ (strs[i] = <<>> /\ strs[j] # <<>>) => ords[i][j] = "Less"

\* A Num part against a Str part whose first byte is below the digits, and
\* the digits alone against the same digits followed by a Str part.
C15_Witness ==
    /\ Compared
    /\ strs[1] = <<"1">>
    /\ strs[2] = <<".", "0">>
    /\ ords[1][2] = "Less"
    /\ ords[2][1] = "Greater"

\* C16: is_same_pattern is reflexive, symmetric and transitive.
C16_SamePatternIsEquivalence ==
    Matched =>
        \A i, j, k \in Idx :
            /\ pats[i][i]
            /\ IsSamePattern(<<>>, <<>>)
            /\ pats[i][j] = pats[j][i]
            /\ (pats[i][j] /\ pats[j][k]) => pats[i][k]

\* Three different strings of one pattern.
C16_Witness ==
    /\ Matched
    /\ strs[1] = <<"0">>
    /\ strs[2] = <<"1", "0">>
    /\ strs[3] = <<"0", "1">>
    /\ pats[1][2] /\ pats[2][3] /\ pats[1][3]

\* C18 as claimed: two versions are == exactly when cmp gives Equal.
C18_EqAgreesWithCmp ==
    Compared =>
        \A i, j \in Idx : eqs[i][j] <=> (ords[i][j] = "Equal")

----------------------------------------------------------------------------
(* Properties of main.rs: output, ties and a semaphore without permits *)

\* C17 as claimed: a line is written only once every task has finished.
C17_NoOutputBeforeAllDone ==
    lines # <<>> => \A i \in Tasks : pc[i] = "done"

\* C17 amended: the line of image k is written only once tasks 1..k have
\* finished, tasks after k may still be running; main ends only once every
\* task has finished.
C17_LineAfterEarlierTasks ==
    /\ \A l \in 1..Len(lines) :
         \A k \in 1..lines[l].image : pc[k] = "done"
    /\ \A l \in 1..Len(lines) : lines[l].outcome.kind \in Outcomes
    /\ exit_code # "running" => \A i \in Tasks : pc[i] = "done"

\* The first image's line is written while a later task still lists tags
\* and another still waits for a slot.
C17_Witness ==
    /\ Len(lines) >= 1
    /\ lines[1].image = 1
    /\ \E i \in Tasks : pc[i] = "listing"
    /\ \E i \in Tasks : pc[i] = "waiting"

\* The greatest of a non-empty set of indices.
Greatest(S) == CHOOSE p \in S : \A q \in S : q <= p

\* C19: a successful selection returns, of the listed tags of the
\* reference's pattern that no other such tag is Greater than, the one
\* listed last; so the tag is a function of the reference tag and the list.
C19_LastOfEqualMaxima ==
    \A i \in Tasks :
        (pc[i] = "done" /\ result[i].kind = "Ok") =>
            LET L == all_tags[i]
                start == VersionFrom(images[i].tag.val)
                M == {k \in 1..Len(L) : SameShape(VersionFrom(L[k]), start)}
                Top == {k \in M : \A j \in M :
                          VersionCmp(VersionFrom(L[j]), VersionFrom(L[k])) # "Greater"}
            IN  /\ Top # {}
                /\ result[i].val = L[Greatest(Top)]

\* v1 and v01 compare Equal and are both maximal; v01, listed last, is
\* returned.
C19_Witness ==
    \E i \in Tasks :
        /\ pc[i] = "done"
        /\ images[i].tag = Some(TagV1)
        /\ all_tags[i] = <<TagV1, TagV01>>
        /\ VersionCmp(VersionFrom(TagV1), VersionFrom(TagV01)) = "Equal"
        /\ result[i] = Ok(TagV01)

\* C20: with --concurrency 0 no task is ever admitted: no request is
\* issued, no outcome is collected, no line is written and main never ends.
C20_ZeroConcurrencyNeverRuns ==
    concurrency = 0 =>
        /\ permits = 0
        /\ \A i \in Tasks :
             /\ pc[i] = "waiting"
             /\ requests[i] = <<>>
             /\ result[i] = Pending
        /\ next = 1
        /\ collected = <<>>
        /\ lines = <<>>
        /\ exit_code = "running"

\* A run with --concurrency 0: every task waits, main awaits the first task
\* and nothing can take a step.
C20_Witness ==
    /\ concurrency = 0
    /\ Len(images) = NumImages
    /\ \A i \in Tasks : pc[i] = "waiting" /\ ~ENABLED Acquire(i)
    /\ ~ENABLED Collect
    /\ ~ENABLED Exit

====
